---- MODULE Spec2Model ----
(***************************************************************************)
(* Dimension bookkeeping of dynamic-rank views of Sacado Fad types         *)
(* (packages/sacado/src/Kokkos_DynRankView_Fad.hpp):                        *)
(*   - DynRankDimTraits<ViewSpecializeSacadoFad>::computeRank/createLayout  *)
(*   - AssignFadDimStride<R,StaticDim> / AssignDim<R,FadStaticDim>          *)
(*   - ViewMapping<Dst,Src,ViewToDynRankViewTag>::assign                    *)
(* Dimension and stride arrays are functions over the slots 0..7.           *)
(***************************************************************************)
EXTENDS Integers, Sequences, FiniteSets, TLC

\* Largest concrete extent drawn for a dimension slot.
MaxExtent == 2

\* Largest stride multiplier drawn for a stride array.
MaxStride == 2

\* enum : size_t { unspecified = ~size_t(0) }: all bits set, written as the
\* two's-complement reading size_t(-1) of the same bit pattern.
unspecified == -1

Slots == 0..7

Extents == 1..MaxExtent

VARIABLES
  op,       \* the operation that produced the current state
  args,     \* N0..N7 handed to computeRank
  rank,     \* value returned by computeRank
  layout,   \* layout handed to createLayout
  l,        \* layout returned by createLayout
  rule,     \* template arguments <R, StaticDim> of the transfer rule in use
  src,      \* source view mapping
  dst,      \* destination view mapping
  dst0,     \* the destination as it was when the operation was entered
  traits,   \* compile-time traits of the destination and source view types
  out,      \* what deep_copy did: the branch taken and the bytes copied
  pe        \* read_pexoII_info: the globals it sets and its position

vars == <<op, args, rank, layout, l, rule, src, dst, dst0, traits, out, pe>>

(***************************************************************************)
(* DynRankDimTraits<ViewSpecializeSacadoFad>                                *)
(***************************************************************************)

\* N[i] == unspecified for every slot from..7
UnspecifiedFrom(N, from) == \A i \in from..7 : N[i] = unspecified

\* Plausible slip: the rank of an ordinary DynRankView (the number of leading
\* specified arguments), without the one-less adjustment for the Fad dimension.
computeRank_ordinary(N) ==
  IF UnspecifiedFrom(N, 0) THEN 0
  ELSE IF UnspecifiedFrom(N, 1) THEN 1
  ELSE IF UnspecifiedFrom(N, 2) THEN 2
  ELSE IF UnspecifiedFrom(N, 3) THEN 3
  ELSE IF UnspecifiedFrom(N, 4) THEN 4
  ELSE IF UnspecifiedFrom(N, 5) THEN 5
  ELSE IF UnspecifiedFrom(N, 6) THEN 6
  ELSE IF UnspecifiedFrom(N, 7) THEN 7
  ELSE 8

\* computeRank(N0,...,N7): the chain of conditionals, first match wins.
computeRank(N) ==
  IF UnspecifiedFrom(N, 0) THEN 0
  ELSE IF UnspecifiedFrom(N, 1) THEN 0
  ELSE IF UnspecifiedFrom(N, 2) THEN 1
  ELSE IF UnspecifiedFrom(N, 3) THEN 2
  ELSE IF UnspecifiedFrom(N, 4) THEN 3
  ELSE IF UnspecifiedFrom(N, 5) THEN 4
  ELSE IF UnspecifiedFrom(N, 6) THEN 5
  ELSE IF UnspecifiedFrom(N, 7) THEN 6
  ELSE 7

\* computeRank(const Layout&): forwards layout.dimension[0..7].
computeRankLayout(lay) == computeRank(lay.dimension)

\* Plausible slip: the constructor arguments are passed through without
\* replacing the sentinel.
DefaultedDimension_raw(lay) == [i \in Slots |-> lay.dimension[i]]

\* Layout l(dimension[i] != unspecified ? dimension[i] : 1, ...): the
\* constructor arguments of the copy that createLayout starts from.
DefaultedDimension(lay) ==
  [i \in Slots |-> IF lay.dimension[i] # unspecified THEN lay.dimension[i] ELSE 1]

\* Plausible slip: the Fad extent is copied to slot 7 but its old slot is
\* left as it was.
createLayout_keep(lay) ==
  LET fad_dim  == computeRankLayout(lay)
      fad_size == lay.dimension[fad_dim]
  IN  [kind      |-> lay.kind,
       dimension |-> [DefaultedDimension(lay) EXCEPT ![7] = fad_size],
       stride    |-> lay.stride]

\* createLayout for LayoutLeft / LayoutRight.
createLayout(lay) ==
  LET fad_dim  == computeRankLayout(lay)
      fad_size == lay.dimension[fad_dim]
      d0       == DefaultedDimension(lay)
      d1       == [d0 EXCEPT ![fad_dim] = 1]
      d2       == [d1 EXCEPT ![7] = fad_size]
  IN  [kind |-> lay.kind, dimension |-> d2, stride |-> lay.stride]

\* createLayout for LayoutStride: the strides are handed to the constructor
\* slot by slot; only the dimension array is touched afterwards.
createLayoutStride(lay) ==
  LET fad_dim  == computeRankLayout(lay)
      fad_size == lay.dimension[fad_dim]
      d0       == DefaultedDimension(lay)
      s0       == [i \in Slots |-> lay.stride[i]]
      d1       == [d0 EXCEPT ![fad_dim] = 1]
      d2       == [d1 EXCEPT ![7] = fad_size]
  IN  [kind |-> lay.kind, dimension |-> d2, stride |-> s0]

(***************************************************************************)
(* Transfer rules: AssignFadDimStride<R,StaticDim>, AssignDim<R,StaticDim>  *)
(***************************************************************************)

\* Plausible slip: slot 7 is written whatever the static width.
AssignDim7_always(StaticDim, N7, src_dim) == src_dim

\* AssignDim7<StaticDim>::eval(dst, src_dim): the new value of dst.N7, given
\* its old value N7. Only the <0u> specialization assigns.
AssignDim7(StaticDim, N7, src_dim) ==
  IF StaticDim = 0 THEN src_dim ELSE N7

\* Plausible slip: the last stride slot is copied from the source's slot 7
\* instead of the source's slot R.
FadStride_last(R, s) ==
  [i \in Slots |-> IF i < R THEN s[i] ELSE IF i < 7 THEN 0 ELSE s[7]]

\* AssignFadDimStride<R,StaticDim>::eval, the dst.m_stride.S0..S7 lines:
\* S0..S(R-1) from the source, S(R)..S6 zero, S7 from the source's S(R).
FadStride(R, s) ==
  [i \in Slots |-> IF i < R THEN s[i] ELSE IF i < 7 THEN 0 ELSE s[R]]

\* Plausible slip: slot R keeps the source's extent as well as handing it
\* to slot 7.
FadDim_keep(R, StaticDim, d, s) ==
  [i \in Slots |->
     IF i <= R /\ i < 7 THEN s[i]
     ELSE IF i < 7 THEN 1
     ELSE AssignDim7(StaticDim, d[7], s[R])]

\* AssignFadDimStride<R,StaticDim>::eval, the dst.m_dim.N0..N7 lines:
\* N0..N(R-1) from the source, N(R)..N6 one, N7 through AssignDim7.
FadDim(R, StaticDim, d, s) ==
  [i \in Slots |->
     IF i < R THEN s[i]
     ELSE IF i < 7 THEN 1
     ELSE AssignDim7(StaticDim, d[7], s[R])]

\* AssignFadDimStride<R,StaticDim>::eval(dst, src) on the offsets.
AssignFadDimStride(R, StaticDim, d, s) ==
  [d EXCEPT !.m_stride = FadStride(R, s.m_stride),
            !.m_dim    = FadDim(R, StaticDim, d.m_dim, s.m_dim)]

\* AssignFadDim7<StaticDim>::eval(dst, src, dim): the new value of
\* dst.m_dim.N7; src.m_dim.extent(dim) is the source's slot dim.
AssignFadDim7(StaticDim, d, s, dim) ==
  IF StaticDim = 0 THEN s[dim] ELSE d[7]

\* Plausible slip: the source's slot R is copied in place as well as being
\* routed to slot 7.
AssignDim_keep(R, FadStaticDim, d, s) ==
  [d EXCEPT !.m_dim =
     [i \in Slots |->
        IF i <= R /\ i < 7 THEN s.m_dim[i]
        ELSE IF i < 7 THEN 1
        ELSE AssignFadDim7(FadStaticDim, d.m_dim, s.m_dim, R)]]

\* AssignDim<R,FadStaticDim>::eval(dst, src): dimensions only.
AssignDim(R, FadStaticDim, d, s) ==
  [d EXCEPT !.m_dim =
     [i \in Slots |->
        IF i < R THEN s.m_dim[i]
        ELSE IF i < 7 THEN 1
        ELSE AssignFadDim7(FadStaticDim, d.m_dim, s.m_dim, R)]]

\* Plausible slip: the two Fad fields are copied whatever the destination's
\* specialization.
assign_fad_size_always(d, s) ==
  [d EXCEPT !.m_fad_size = s.m_fad_size, !.m_fad_stride = s.m_fad_stride]

\* assign_fad_size<DstTraits::specialize>(dst.m_map, src.m_map): copies the
\* two Fad fields only into a Fad destination.
assign_fad_size(d, s) ==
  IF d.specialize = "ViewSpecializeSacadoFad"
  THEN [d EXCEPT !.m_fad_size = s.m_fad_size, !.m_fad_stride = s.m_fad_stride]
  ELSE d

\* ViewMapping<Dst,Src,ViewToDynRankViewTag>::assign(dst, src).
assign(FadStaticDim, d, s) ==
  LET d1 == AssignDim(s.m_rank, FadStaticDim, d, s)
      d2 == [d1 EXCEPT !.m_handle = s.m_handle]
      d3 == [d2 EXCEPT !.m_rank = s.m_rank]
      d4 == [d3 EXCEPT !.m_stride = s.m_stride]
  IN  assign_fad_size(d4, s)

\* The array layouts a view of Fad may have.
FadLayouts == {"LayoutLeft", "LayoutRight", "LayoutStride"}

\* The enable_if of the ViewToDynRankViewTag mapping: one memory space, a Fad
\* or ordinary destination, a Fad source.
is_assignable(t, d, s) ==
  /\ t.dst_memory_space = t.src_memory_space
  /\ d.specialize \in {"ViewSpecializeSacadoFad", "void"}
  /\ s.specialize = "ViewSpecializeSacadoFad"

\* Plausible slip: only the destination's layout is asserted.
assign_static_assert_dst(t) ==
  /\ t.dst_layout \in FadLayouts
  /\ t.dst_value_type \in {"value_type", "const_value_type"}

\* The two static_asserts of assign: both layouts are LayoutLeft, LayoutRight
\* or LayoutStride, and the destination's value type is the source's
\* value_type or const_value_type.
assign_static_assert(t) ==
  /\ t.dst_layout \in FadLayouts /\ t.src_layout \in FadLayouts
  /\ t.dst_value_type \in {"value_type", "const_value_type"}


(***************************************************************************)
(* Inputs                                                                  *)
(***************************************************************************)

\* Any combination of concrete and unspecified arguments N0..N7.
DimArgs == [Slots -> Extents \cup {unspecified}]

\* Number of leading specified slots of a dimension array.
Leading(d) == Cardinality({k \in Slots : \A i \in 0..k : d[i] # unspecified})

\* Unspecified slots are contiguous and trailing.
Contiguous(d) == \A i \in Slots : d[i] # unspecified => i < Leading(d)

\* The dimension array of a layout built from k constructor arguments
\* f[0..k-1]: k leading extents, the rest unspecified.
LayoutDimension(k, f) ==
  [i \in Slots |-> IF i < k THEN f[i] ELSE unspecified]

ZeroArray == [i \in Slots |-> 0]

\* Caller-supplied strides of a LayoutStride: all slots distinct multiples
\* of a base, or a single nonzero slot.
StrideArrays ==
  {[i \in Slots |-> b * (i + 1)] : b \in 1..MaxStride}
  \cup {[i \in Slots |-> IF i = j THEN b ELSE 0] : j \in Slots, b \in 1..MaxStride}

LayoutKinds == {"LayoutLeft", "LayoutRight", "LayoutStride"}

\* LayoutLeft and LayoutRight carry no stride array.
StridesOf(kind) == IF kind = "LayoutStride" THEN StrideArrays ELSE {ZeroArray}

NoLayout == [kind |-> "none", dimension |-> ZeroArray, stride |-> ZeroArray]

NoRule == [R |-> 0, StaticDim |-> 0]

\* A default-constructed view mapping: no extents, null handle.
NoView ==
  [m_dim |-> ZeroArray, m_stride |-> ZeroArray, m_handle |-> 0, m_rank |-> 0,
   m_fad_size |-> 0, m_fad_stride |-> 0, specialize |-> "ViewSpecializeSacadoFad"]

\* A destination that has been in use: extents and strides that no source
\* of the model carries.
StaleView ==
  [m_dim |-> [i \in Slots |-> MaxExtent + 1],
   m_stride |-> [i \in Slots |-> 8 * MaxStride + 1],
   m_handle |-> 1, m_rank |-> 7, m_fad_size |-> MaxExtent,
   m_fad_stride |-> 8 * MaxStride + 1, specialize |-> "ViewSpecializeSacadoFad"]

DstInits == {NoView, StaleView}

\* Traits of an assignment the ViewToDynRankViewTag mapping accepts: one
\* memory space, supported layouts, the same value type.
FadTraits ==
  [dst_memory_space |-> "HostSpace", src_memory_space |-> "HostSpace",
   dst_layout |-> "LayoutRight", src_layout |-> "LayoutRight",
   dst_value_type |-> "value_type"]

\* read_pexoII_info has not been called.
NoCommandFile == [pc |-> "none"]

\* deep_copy has not run.
NoOut == [path |-> "none", nbytes |-> 0, DeepCopy |-> 0, Remap |-> 0]

\* The source mapping of rank R with extents f[0..R] and stride base b:
\* slots 0..R populated (slot R is the Fad dimension), the rest trivial.
Source(R, f, b) ==
  [m_dim |-> [i \in Slots |-> IF i <= R THEN f[i] ELSE 1],
   m_stride |-> [i \in Slots |-> IF i <= R THEN b * (i + 1) ELSE 0],
   m_handle |-> 2, m_rank |-> R,
   m_fad_size |-> f[R] - 1, m_fad_stride |-> b * (R + 1),
   specialize |-> "ViewSpecializeSacadoFad"]

\* Template arguments <R, StaticDim> and a source that fits them: StaticDim
\* is 0 (dynamic) or the static width, which is the source's extent at R.
RuleAndSource ==
  \E R \in 0..7 :
    \E f \in [0..R -> Extents], b \in 1..MaxStride :
      \E sd \in {0, f[R]} :
        /\ rule = [R |-> R, StaticDim |-> sd]
        /\ src = Source(R, f, b)

(***************************************************************************)
(* computeRank applied to arbitrary arguments                               *)
(***************************************************************************)

InitRank ==
  /\ op = "init"
  /\ args \in DimArgs
  /\ rank = 0
  /\ layout = NoLayout /\ l = NoLayout
  /\ rule = NoRule /\ src = NoView /\ dst = NoView /\ dst0 = NoView
  /\ traits = FadTraits /\ out = NoOut
  /\ pe = NoCommandFile

ComputeRank ==
  /\ op = "init"
  /\ op' = "computeRank"
  /\ rank' = computeRank(args)
  /\ UNCHANGED <<args, layout, l, rule, src, dst, dst0, traits, out, pe>>

NextRank == ComputeRank

SpecRank == InitRank /\ [][NextRank]_vars

(***************************************************************************)
(* createLayout applied to layout requests                                  *)
(***************************************************************************)

InitLayout ==
  /\ op = "init"
  /\ \E kind \in LayoutKinds, k \in 0..8 :
       \E f \in [0..(k - 1) -> Extents], s \in StridesOf(kind) :
         layout = [kind |-> kind, dimension |-> LayoutDimension(k, f), stride |-> s]
  /\ l = NoLayout
  /\ args = ZeroArray /\ rank = 0
  /\ rule = NoRule /\ src = NoView /\ dst = NoView /\ dst0 = NoView
  /\ traits = FadTraits /\ out = NoOut
  /\ pe = NoCommandFile

CreateLayout ==
  /\ op = "init"
  /\ layout.kind \in {"LayoutLeft", "LayoutRight"}
  /\ op' = "createLayout"
  /\ l' = createLayout(layout)
  /\ UNCHANGED <<args, rank, layout, rule, src, dst, dst0, traits, out, pe>>

CreateLayoutStride ==
  /\ op = "init"
  /\ layout.kind = "LayoutStride"
  /\ op' = "createLayoutStride"
  /\ l' = createLayoutStride(layout)
  /\ UNCHANGED <<args, rank, layout, rule, src, dst, dst0, traits, out, pe>>

NextLayout == CreateLayout \/ CreateLayoutStride

SpecLayout == InitLayout /\ [][NextLayout]_vars

\* createLayout applied to the layout it returned; args keeps the first
\* request's dimensions.
CreateLayoutAgain ==
  /\ op = "createLayout"
  /\ op' = "createLayoutAgain"
  /\ args' = layout.dimension
  /\ layout' = l
  /\ l' = createLayout(l)
  /\ UNCHANGED <<rank, rule, src, dst, dst0, traits, out, pe>>

CreateLayoutStrideAgain ==
  /\ op = "createLayoutStride"
  /\ op' = "createLayoutStrideAgain"
  /\ args' = layout.dimension
  /\ layout' = l
  /\ l' = createLayoutStride(l)
  /\ UNCHANGED <<rank, rule, src, dst, dst0, traits, out, pe>>

NextLayoutTwice ==
  \/ CreateLayout \/ CreateLayoutStride
  \/ CreateLayoutAgain \/ CreateLayoutStrideAgain

SpecLayoutTwice == InitLayout /\ [][NextLayoutTwice]_vars

(***************************************************************************)
(* Claims about computeRank                                                 *)
(***************************************************************************)

\* C1 (as stated): for k leading specified slots followed by 8-k unspecified
\* slots, k in 0..7, computeRank returns k.
C1_RankIsLeadingCount ==
  (op = "computeRank" /\ Contiguous(args) /\ Leading(args) \in 0..7)
    => rank = Leading(args)

\* C1 (amended): for k leading specified slots followed by 8-k unspecified
\* slots, computeRank returns k-1 when k is in 1..7 and 0 when k = 0: the
\* last specified slot is the Fad dimension and is not counted.
C1_RankIsOneLess ==
  (op = "computeRank" /\ Contiguous(args) /\ Leading(args) \in 0..7)
    => rank = (IF Leading(args) = 0 THEN 0 ELSE Leading(args) - 1)

C1_Witness ==
  /\ op = "computeRank"
  /\ Contiguous(args)
  /\ Leading(args) = 3
  /\ rank = 2

\* C2: computeRank returns 0 when all 8 slots are unspecified, 7 when all 8
\* slots are specified, and never more than 7.
C2_RankEdges ==
  op = "computeRank" =>
    /\ rank <= 7
    /\ ((\A i \in Slots : args[i] = unspecified) => rank = 0)
    /\ ((\A i \in Slots : args[i] # unspecified) => rank = 7)

C2_Witness ==
  /\ op = "computeRank"
  /\ \A i \in Slots : args[i] # unspecified
  /\ rank = 7


(***************************************************************************)
(* Claims about createLayout                                                *)
(***************************************************************************)

\* C3: createLayout (LayoutLeft / LayoutRight): with p = computeRank(request),
\* 0 <= p <= 6, the result has slot 7 equal to the request's slot-p extent,
\* slot p equal to 1, every other slot that was unspecified in the request
\* equal to 1, and slots 0..p-1 equal to the request's extents.
C3_LayoutRelocatesFadSlot ==
  LET p == computeRank(layout.dimension) IN
  (op = "createLayout" /\ p \in 0..6) =>
    /\ l.dimension[7] = layout.dimension[p]
    /\ l.dimension[p] = 1
    /\ \A i \in Slots \ {p, 7} :
         layout.dimension[i] = unspecified => l.dimension[i] = 1
    /\ \A i \in 0..(p - 1) : l.dimension[i] = layout.dimension[i]

C3_Witness ==
  /\ op = "createLayout"
  /\ computeRank(layout.dimension) = 2
  /\ layout.dimension[0] = 2 /\ layout.dimension[2] = 2
  /\ l.dimension[0] = 2 /\ l.dimension[2] = 1 /\ l.dimension[7] = 2

\* C4 (as stated): every slot that is unspecified in the request has extent 1
\* in the result, and no slot of the result holds the unspecified sentinel,
\* for 0 to 8 leading specified slots and all three layout kinds.
C4_UnspecifiedBecomeOne ==
  op \in {"createLayout", "createLayoutStride"} =>
    /\ \A i \in Slots : layout.dimension[i] = unspecified => l.dimension[i] = 1
    /\ \A i \in Slots : l.dimension[i] # unspecified

\* C4 (amended): every slot other than slot 7 that is unspecified in the
\* request has extent 1 in the result; slot 7 holds the request's extent at
\* slot computeRank(request), not 1. Hence no slot of the result holds the
\* sentinel for 1 to 8 leading specified slots, and for 0 leading specified
\* slots exactly slot 7 holds it. All three layout kinds.
C4_UnspecifiedBecomeOneExceptFadSlot ==
  LET p == computeRank(layout.dimension) IN
  op \in {"createLayout", "createLayoutStride"} =>
    /\ \A i \in 0..6 : layout.dimension[i] = unspecified => l.dimension[i] = 1
    /\ l.dimension[7] = layout.dimension[p]
    /\ Leading(layout.dimension) >= 1 =>
         \A i \in Slots : l.dimension[i] # unspecified
    /\ Leading(layout.dimension) = 0 =>
         \A i \in Slots : (l.dimension[i] = unspecified) <=> (i = 7)

C4_Witness ==
  /\ op = "createLayoutStride"
  /\ Leading(layout.dimension) = 2
  /\ layout.dimension[1] = 2
  /\ l.dimension[1] = 1 /\ l.dimension[5] = 1 /\ l.dimension[7] = 2

\* C5 (as stated): createLayout (LayoutStride) relocates the strides like the
\* dimensions: with p = computeRank(request), result stride slot 7 equals the
\* request's stride at p, result stride slot p equals the request's stride
\* at 7, and every other stride slot equals the caller-supplied stride.
C5_StrideRelocated ==
  LET p == computeRank(layout.dimension) IN
  op = "createLayoutStride" =>
    /\ l.stride[7] = layout.stride[p]
    /\ l.stride[p] = layout.stride[7]
    /\ \A i \in Slots \ {p, 7} : l.stride[i] = layout.stride[i]


(***************************************************************************)
(* The transfer rules applied to a destination                              *)
(***************************************************************************)

InitTransfer ==
  /\ op = "init"
  /\ RuleAndSource
  /\ dst \in DstInits
  /\ dst0 = dst
  /\ args = ZeroArray /\ rank = 0 /\ layout = NoLayout /\ l = NoLayout
  /\ traits = FadTraits /\ out = NoOut
  /\ pe = NoCommandFile

EvalAssignFadDimStride ==
  /\ op = "init"
  /\ op' = "AssignFadDimStride"
  /\ dst0' = dst
  /\ dst' = AssignFadDimStride(rule.R, rule.StaticDim, dst, src)
  /\ UNCHANGED <<args, rank, layout, l, rule, src, traits, out, pe>>

EvalAssignDim ==
  /\ op = "init"
  /\ op' = "AssignDim"
  /\ dst0' = dst
  /\ dst' = AssignDim(rule.R, rule.StaticDim, dst, src)
  /\ UNCHANGED <<args, rank, layout, l, rule, src, traits, out, pe>>

\* The rule applied once more, with its own output as the source.
ReapplyFadDimStride ==
  /\ op = "AssignFadDimStride"
  /\ op' = "Reapply"
  /\ src' = dst
  /\ dst0' = dst
  /\ dst' = AssignFadDimStride(rule.R, rule.StaticDim, dst, dst)
  /\ UNCHANGED <<args, rank, layout, l, rule, traits, out, pe>>

NextTransfer == EvalAssignFadDimStride \/ EvalAssignDim \/ ReapplyFadDimStride

SpecTransfer == InitTransfer /\ [][NextTransfer]_vars

(***************************************************************************)
(* Assignment of a Fad View to a DynRankView                                *)
(***************************************************************************)

InitAssign ==
  /\ op = "init"
  /\ RuleAndSource
  /\ dst \in {[d EXCEPT !.specialize = sp] :
                d \in DstInits, sp \in {"ViewSpecializeSacadoFad", "void"}}
  /\ dst0 = dst
  /\ args = ZeroArray /\ rank = 0 /\ layout = NoLayout /\ l = NoLayout
  /\ traits = FadTraits /\ out = NoOut
  /\ pe = NoCommandFile

Assign ==
  /\ op = "init"
  /\ is_assignable(traits, dst, src) /\ assign_static_assert(traits)
  /\ op' = "assign"
  /\ dst0' = dst
  /\ dst' = assign(rule.StaticDim, dst, src)
  /\ UNCHANGED <<args, rank, layout, l, rule, src, traits, out, pe>>

NextAssign == Assign

SpecAssign == InitAssign /\ [][NextAssign]_vars

(***************************************************************************)
(* assign instantiated for arbitrary view traits                            *)
(***************************************************************************)

MemorySpaces == {"HostSpace", "CudaSpace"}

\* The supported layouts and one that is not.
ArrayLayouts == FadLayouts \cup {"LayoutTiled"}

\* The destination's value type, relative to the source's.
ValueTypes == {"value_type", "const_value_type", "other"}

AssignTraits ==
  [dst_memory_space : MemorySpaces, src_memory_space : MemorySpaces,
   dst_layout : ArrayLayouts, src_layout : ArrayLayouts,
   dst_value_type : ValueTypes]

InitAssignTraits ==
  /\ op = "init"
  /\ \E R \in 0..1 :
       \E f \in [0..R -> Extents], sd \in {0, 1} :
         /\ rule = [R |-> R, StaticDim |-> sd * f[R]]
         /\ src = Source(R, f, 1)
  /\ dst \in {[d EXCEPT !.specialize = sp] :
                d \in DstInits, sp \in {"ViewSpecializeSacadoFad", "void"}}
  /\ dst0 = dst
  /\ traits \in AssignTraits
  /\ args = ZeroArray /\ rank = 0 /\ layout = NoLayout /\ l = NoLayout
  /\ out = NoOut
  /\ pe = NoCommandFile

\* The instantiation does not compile: nothing runs.
RejectAssign ==
  /\ op = "init"
  /\ ~(is_assignable(traits, dst, src) /\ assign_static_assert(traits))
  /\ op' = "rejected"
  /\ dst0' = dst
  /\ UNCHANGED <<args, rank, layout, l, rule, src, dst, traits, out, pe>>

NextAssignTraits == Assign \/ RejectAssign

SpecAssignTraits == InitAssignTraits /\ [][NextAssignTraits]_vars


(***************************************************************************)
(* Claims about the transfer rules                                          *)
(***************************************************************************)

\* C6: with dynamic derivative width (StaticDim = 0) the rank-R rule leaves
\* destination dimension slots 0..R-1 equal to the source's, slots R..6
\* equal to 1 and slot 7 equal to the source's extent at position R, for
\* AssignFadDimStride and for AssignDim alike.
C6_DimensionTransfer ==
  (op \in {"AssignFadDimStride", "AssignDim"} /\ rule.StaticDim = 0) =>
    /\ \A i \in 0..(rule.R - 1) : dst.m_dim[i] = src.m_dim[i]
    /\ \A i \in rule.R..6 : dst.m_dim[i] = 1
    /\ dst.m_dim[7] = src.m_dim[rule.R]

C6_Witness ==
  /\ op = "AssignDim"
  /\ rule = [R |-> 3, StaticDim |-> 0]
  /\ src.m_dim[0] = 2 /\ src.m_dim[3] = 2
  /\ dst.m_dim[0] = 2 /\ dst.m_dim[3] = 1 /\ dst.m_dim[7] = 2

\* C7: AssignFadDimStride of rank R leaves destination stride slots 0..R-1
\* equal to the source's, slots R..6 equal to 0 and slot 7 equal to the
\* source's stride at position R, for every static derivative width.
C7_StrideTransfer ==
  op = "AssignFadDimStride" =>
    /\ \A i \in 0..(rule.R - 1) : dst.m_stride[i] = src.m_stride[i]
    /\ \A i \in rule.R..6 : dst.m_stride[i] = 0
    /\ dst.m_stride[7] = src.m_stride[rule.R]

C7_Witness ==
  /\ op = "AssignFadDimStride"
  /\ rule.R = 2 /\ rule.StaticDim # 0
  /\ src.m_stride[1] = 4 /\ src.m_stride[2] = 6
  /\ dst.m_stride[1] = 4 /\ dst.m_stride[2] = 0 /\ dst.m_stride[7] = 6

\* C8: with a nonzero static derivative width the rank-R rule leaves the
\* destination's dimension slot 7 as it was before the call; with width 0
\* slot 7 is written (with the source's extent at position R).
C8_StaticWidthSkipsSlot7 ==
  op \in {"AssignFadDimStride", "AssignDim"} =>
    /\ rule.StaticDim # 0 => dst.m_dim[7] = dst0.m_dim[7]
    /\ rule.StaticDim = 0 => dst.m_dim[7] = src.m_dim[rule.R]

C8_Witness ==
  /\ op = "AssignFadDimStride"
  /\ rule.StaticDim = 2
  /\ src.m_dim[rule.R] = 2
  /\ dst0.m_dim[7] = MaxExtent + 1
  /\ dst.m_dim[7] = MaxExtent + 1
  /\ dst.m_dim[6] = 1

\* C9 (as stated): applying the rank-R rule to a destination that the rank-R
\* rule produced yields that destination again, all 8 dimension slots and
\* all 8 stride slots unchanged.
C9_TransferIdempotent ==
  op = "Reapply" => (dst.m_dim = dst0.m_dim /\ dst.m_stride = dst0.m_stride)

\* C9 (amended): applying the rank-R rule to its own output leaves dimension
\* slots 0..6 and stride slots 0..6 unchanged; all 8 slots of both arrays are
\* unchanged for R = 7. For R < 7 the second application sets stride slot 7
\* to 0 and, with dynamic width, dimension slot 7 to 1 (the output's slot R);
\* with a static width dimension slot 7 is left alone.
C9_TransferIdempotentBelowSlot7 ==
  op = "Reapply" =>
    /\ \A i \in 0..6 : dst.m_dim[i] = dst0.m_dim[i]
    /\ \A i \in 0..6 : dst.m_stride[i] = dst0.m_stride[i]
    /\ rule.R = 7 => (dst.m_dim = dst0.m_dim /\ dst.m_stride = dst0.m_stride)
    /\ rule.R < 7 =>
         /\ dst.m_stride[7] = 0
         /\ dst.m_dim[7] = (IF rule.StaticDim = 0 THEN 1 ELSE dst0.m_dim[7])

C9_Witness ==
  /\ op = "Reapply"
  /\ rule = [R |-> 2, StaticDim |-> 0]
  /\ dst0.m_dim[0] = 2 /\ dst0.m_dim[7] = 2 /\ dst0.m_stride[7] = 3
  /\ dst.m_dim[0] = 2 /\ dst.m_dim[7] = 1 /\ dst.m_stride[7] = 0

(***************************************************************************)
(* Claims about assign                                                      *)
(***************************************************************************)

\* d[0] * ... * d[n]
RECURSIVE Product(_, _)
Product(d, n) == IF n < 0 THEN 1 ELSE d[n] * Product(d, n - 1)

\* C10 (as stated): after assigning a Fad source of rank R to an ordinary
\* destination, the product of all 8 destination dimension slots equals the
\* product of the source's dimension slots 0..R.
C10_AssignPreservesCount ==
  (op = "assign" /\ dst.specialize = "void") =>
    Product(dst.m_dim, 7) = Product(src.m_dim, src.m_rank)

\* C10 (amended): with dynamic derivative width the product of all 8
\* destination dimension slots equals the product of the source's slots 0..R;
\* with a nonzero static width slot 7 is not written, and the product equals
\* the product of the source's slots 0..R-1 times the extent the destination
\* held in slot 7 before the assignment.
C10_AssignPreservesCountDynamic ==
  (op = "assign" /\ dst.specialize = "void") =>
    /\ rule.StaticDim = 0 =>
         Product(dst.m_dim, 7) = Product(src.m_dim, src.m_rank)
    /\ rule.StaticDim # 0 =>
         Product(dst.m_dim, 7) = Product(src.m_dim, src.m_rank - 1) * dst0.m_dim[7]

C10_Witness ==
  /\ op = "assign"
  /\ dst.specialize = "void"
  /\ rule = [R |-> 2, StaticDim |-> 0]
  /\ Product(src.m_dim, 2) = 8
  /\ Product(dst.m_dim, 7) = 8
  /\ dst0.m_dim[7] = 0

\* C11 (as stated): after assign from a source of rank R, the destination's
\* stride slots 0..R-1 equal the source's, stride slots R..6 are 0, and
\* stride slot 7 equals the source's stride at position R.
C11_AssignTransfersStrides ==
  op = "assign" =>
    /\ \A i \in 0..(src.m_rank - 1) : dst.m_stride[i] = src.m_stride[i]
    /\ \A i \in src.m_rank..6 : dst.m_stride[i] = 0
    /\ dst.m_stride[7] = src.m_stride[src.m_rank]

\* C12: after assign the destination's handle is the source's handle and its
\* rank is the source's rank; a Fad destination has the source's m_fad_size
\* and m_fad_stride, an ordinary destination keeps the two fields it had.
C12_AssignSharesStorage ==
  op = "assign" =>
    /\ dst.m_handle = src.m_handle
    /\ dst.m_rank = src.m_rank
    /\ dst.specialize = "ViewSpecializeSacadoFad" =>
         /\ dst.m_fad_size = src.m_fad_size
         /\ dst.m_fad_stride = src.m_fad_stride
    /\ dst.specialize = "void" =>
         /\ dst.m_fad_size = dst0.m_fad_size
         /\ dst.m_fad_stride = dst0.m_fad_stride

C12_Witness ==
  /\ op = "assign"
  /\ dst.specialize = "void"
  /\ dst0.m_handle = 1 /\ dst.m_handle = 2
  /\ dst0.m_rank = 7 /\ dst.m_rank = 3
  /\ src.m_fad_size = 1 /\ dst.m_fad_size = MaxExtent
  /\ dst.m_fad_stride # src.m_fad_stride

\* The three conditions the claim lists.
C13_ListedRejection ==
  \/ traits.dst_memory_space # traits.src_memory_space
  \/ traits.dst_layout \notin FadLayouts
  \/ traits.dst_value_type \notin {"value_type", "const_value_type"}

\* C13 (as stated): an assignment is rejected, the destination unmodified,
\* whenever the memory spaces differ, or the destination's layout is not
\* LayoutLeft, LayoutRight or LayoutStride, or the destination's value type is
\* neither the source's nor its const counterpart; nothing about the source's
\* layout causes rejection.
C13_RejectedIffListed ==
  op # "init" =>
    /\ (op = "rejected") <=> C13_ListedRejection
    /\ op = "rejected" => dst = dst0

\* C13 (amended): an assignment is rejected, the destination unmodified,
\* exactly when one of the three listed conditions holds or the source's
\* layout is not LayoutLeft, LayoutRight or LayoutStride; otherwise the
\* assignment is performed.
C13_RejectedIffListedOrSourceLayout ==
  op # "init" =>
    /\ (op = "rejected") <=>
         (C13_ListedRejection \/ traits.src_layout \notin FadLayouts)
    /\ op = "rejected" => dst = dst0
    /\ op # "rejected" => (op = "assign" /\ dst.m_handle = src.m_handle)

C13_Witness ==
  /\ op = "rejected"
  /\ ~C13_ListedRejection
  /\ traits.src_layout = "LayoutTiled"
  /\ dst = dst0 /\ dst.m_handle = 1

(***************************************************************************)
(* deep_copy between two dynamic-rank views of Fad                          *)
(***************************************************************************)

MaxRank == 2

\* sizeof(typename dst_type::value_type): the Fad type.
sizeof_value_type == 24

\* sizeof(typename dst_type::value_type::value_type): the scalar inside.
sizeof_scalar == 8

\* The largest dimension * stride over slots 0..n.
RECURSIVE MaxExtentStride(_, _, _)
MaxExtentStride(d, s, n) ==
  IF n < 0 THEN 0
  ELSE LET m == MaxExtentStride(d, s, n - 1)
           p == d[n] * s[n]
       IN  IF p > m THEN p ELSE m

\* view.span(): the number of scalars in the view's allocated region, the
\* Fad extent included.
span(lay, v) ==
  IF lay = "LayoutStride" THEN MaxExtentStride(v.m_dim, v.m_stride, 7)
  ELSE Product(v.m_dim, 7)

\* dst.dimension_k() == src.dimension_k() for k = 0..7.
SameDimensions(d, s) == \A i \in Slots : d.m_dim[i] = s.m_dim[i]

\* dst.stride_k() == src.stride_k() for k = 0..7.
SameStrides(d, s) == \A i \in Slots : d.m_stride[i] = s.m_stride[i]

\* is_same<DstType::traits::value_type, SrcType::traits::non_const_value_type>.
SameValueType(t) == t.dst_value_type = "non_const_value_type"

\* Plausible slip: the both-rank-1 alternative is left out.
BulkCopyable_same_layout(t, d, s) ==
  /\ SameValueType(t)
  /\ t.dst_layout = t.src_layout
  /\ t.dst_layout \in {"LayoutLeft", "LayoutRight"}
  /\ span(t.dst_layout, d) = span(t.src_layout, s)
  /\ SameDimensions(d, s)

\* The condition of the second branch: same type, the same LayoutLeft or
\* LayoutRight or both views of rank 1, equal span, equal dimensions.
BulkCopyable(t, d, s) ==
  /\ SameValueType(t)
  /\ \/ /\ t.dst_layout = t.src_layout
        /\ t.dst_layout \in {"LayoutLeft", "LayoutRight"}
     \/ (d.m_rank = 1 /\ s.m_rank = 1)
  /\ span(t.dst_layout, d) = span(t.src_layout, s)
  /\ SameDimensions(d, s)

\* The condition of the third branch: same type, both LayoutStride or both
\* views of rank 1, equal span, equal dimensions, equal strides.
StridedCopyable(t, d, s) ==
  /\ SameValueType(t)
  /\ \/ (t.dst_layout = t.src_layout /\ t.dst_layout = "LayoutStride")
     \/ (d.m_rank = 1 /\ s.m_rank = 1)
  /\ span(t.dst_layout, d) = span(t.src_layout, s)
  /\ SameDimensions(d, s)
  /\ SameStrides(d, s)

\* Plausible slip: the size of the Fad type is multiplied by the span.
nbytes_value_type(t, d) == sizeof_value_type * span(t.dst_layout, d)

\* const size_t nbytes = sizeof(value_type::value_type) * dst.span().
nbytes(t, d) == sizeof_scalar * span(t.dst_layout, d)

\* One Kokkos::Impl::DeepCopy of n bytes.
DeepCopy(branch, n) ==
  [path |-> branch, nbytes |-> n, DeepCopy |-> 1, Remap |-> 0]

\* Plausible slip: the source's execution space is tried first.
DynRankViewRemap_src_first(t) ==
  IF t.SrcExecCanAccessDst
  THEN [path |-> "remap_src", nbytes |-> 0, DeepCopy |-> 0, Remap |-> 1]
  ELSE IF t.DstExecCanAccessSrc
  THEN [path |-> "remap_dst", nbytes |-> 0, DeepCopy |-> 0, Remap |-> 1]
  ELSE [path |-> "throw", nbytes |-> 0, DeepCopy |-> 0, Remap |-> 0]

\* Plausible slip: the remap is made without asking whether either space
\* can access the other.
DynRankViewRemap_always(t) ==
  [path |-> "remap_dst", nbytes |-> 0, DeepCopy |-> 0, Remap |-> 1]

\* The last three branches: DynRankViewRemap in the destination's execution
\* space, else in the source's, else throw_runtime_exception.
DynRankViewRemap(t) ==
  IF t.DstExecCanAccessSrc
  THEN [path |-> "remap_dst", nbytes |-> 0, DeepCopy |-> 0, Remap |-> 1]
  ELSE IF t.SrcExecCanAccessDst
  THEN [path |-> "remap_src", nbytes |-> 0, DeepCopy |-> 0, Remap |-> 1]
  ELSE [path |-> "throw", nbytes |-> 0, DeepCopy |-> 0, Remap |-> 0]

\* Plausible slip: the rank-0 test comes after the bulk tests.
CopyPath_bulk_first(t, d, s) ==
  IF BulkCopyable(t, d, s) THEN DeepCopy("bulk", nbytes(t, d))
  ELSE IF StridedCopyable(t, d, s) THEN DeepCopy("strided", nbytes(t, d))
  ELSE IF s.m_rank = 0 /\ d.m_rank = 0
  THEN DeepCopy("scalar", sizeof_value_type)
  ELSE DynRankViewRemap(t)

\* Plausible slip: the accessibility flags are consulted before any branch.
CopyPath_access_first(t, d, s) ==
  IF ~t.DstExecCanAccessSrc /\ ~t.SrcExecCanAccessDst
  THEN [path |-> "throw", nbytes |-> 0, DeepCopy |-> 0, Remap |-> 0]
  ELSE IF s.m_rank = 0 /\ d.m_rank = 0
  THEN DeepCopy("scalar", sizeof_value_type)
  ELSE IF BulkCopyable(t, d, s) THEN DeepCopy("bulk", nbytes(t, d))
  ELSE IF StridedCopyable(t, d, s) THEN DeepCopy("strided", nbytes(t, d))
  ELSE DynRankViewRemap(t)

\* The if / else-if chain entered when the data pointers differ.
CopyPath(t, d, s) ==
  IF s.m_rank = 0 /\ d.m_rank = 0
  THEN DeepCopy("scalar", sizeof_value_type)
  ELSE IF BulkCopyable(t, d, s) THEN DeepCopy("bulk", nbytes(t, d))
  ELSE IF StridedCopyable(t, d, s) THEN DeepCopy("strided", nbytes(t, d))
  ELSE DynRankViewRemap(t)

\* Plausible slip: the data pointers are not compared.
deep_copy_unguarded(t, d, s) == CopyPath(t, d, s)

\* deep_copy(dst, src): what it calls.
deep_copy(t, d, s) ==
  IF d.m_handle # s.m_handle THEN CopyPath(t, d, s) ELSE NoOut

\* Extents of the views copied.
DeepCopyExtents == {MaxExtent + 1, MaxExtent + 2}

\* Strides of a LayoutLeft allocation of extents f[0..R-1] and Fad extent
\* f[R]: the Fad dimension is the slowest.
LeftStrides(R, f) ==
  [i \in Slots |->
     IF i < R THEN Product(f, i - 1)
     ELSE IF i = 7 THEN Product(f, R - 1) ELSE 0]

\* Strides of a LayoutRight allocation: the Fad dimension is the fastest.
RightStrides(R, f) ==
  [i \in Slots |->
     IF i < R THEN Product(f, R) \div Product(f, i)
     ELSE IF i = 7 THEN 1 ELSE 0]

StridesFor(lay, R, f) ==
  IF lay = "LayoutLeft" THEN {LeftStrides(R, f)}
  ELSE IF lay = "LayoutRight" THEN {RightStrides(R, f)}
  ELSE {LeftStrides(R, f), RightStrides(R, f)}

\* A dynamic-rank view of Fad of rank R: extents f[0..R-1] in slots 0..R-1,
\* the Fad extent f[R] in slot 7, data pointer a.
DynRankView(R, f, st, a) ==
  [m_dim |-> [i \in Slots |-> IF i < R THEN f[i] ELSE IF i = 7 THEN f[R] ELSE 1],
   m_stride |-> st, m_handle |-> a, m_rank |-> R,
   m_fad_size |-> f[R] - 1, m_fad_stride |-> st[7],
   specialize |-> "ViewSpecializeSacadoFad"]

\* The destination's value type is the source's non-const value type, a
\* const type, or another non-const type.
DeepCopyTraits ==
  [dst_layout : FadLayouts, src_layout : FadLayouts,
   dst_value_type : {"non_const_value_type", "const_value_type", "other"},
   DstExecCanAccessSrc : BOOLEAN, SrcExecCanAccessDst : BOOLEAN]

InitDeepCopy ==
  /\ op = "init"
  /\ traits \in DeepCopyTraits
  /\ \E Rd \in 0..MaxRank, Rs \in 0..MaxRank :
       \E fd \in [0..Rd -> DeepCopyExtents], fs \in [0..Rs -> DeepCopyExtents] :
         \E sd \in StridesFor(traits.dst_layout, Rd, fd),
            ss \in StridesFor(traits.src_layout, Rs, fs), a \in {1, 2} :
           /\ dst = DynRankView(Rd, fd, sd, a)
           /\ src = DynRankView(Rs, fs, ss, 2)
  /\ dst0 = dst
  /\ rule = NoRule
  /\ args = ZeroArray /\ rank = 0 /\ layout = NoLayout /\ l = NoLayout
  /\ out = NoOut
  /\ pe = NoCommandFile

\* Plausible slip: the destination's constness is not asserted.
deep_copy_static_assert_off(t) == TRUE

\* static_assert: deep_copy requires a non-const destination type.
deep_copy_static_assert(t) == t.dst_value_type # "const_value_type"

DeepCopyViews ==
  /\ op = "init"
  /\ deep_copy_static_assert(traits)
  /\ op' = "deep_copy"
  /\ out' = deep_copy(traits, dst, src)
  /\ UNCHANGED <<args, rank, layout, l, rule, src, dst, dst0, traits, pe>>

\* The instantiation does not compile: nothing runs.
RejectDeepCopy ==
  /\ op = "init"
  /\ ~deep_copy_static_assert(traits)
  /\ op' = "rejected"
  /\ UNCHANGED <<args, rank, layout, l, rule, src, dst, dst0, traits, out, pe>>

NextDeepCopy == DeepCopyViews \/ RejectDeepCopy

SpecDeepCopy == InitDeepCopy /\ [][NextDeepCopy]_vars


(***************************************************************************)
(* The three overloads of deep_copy                                         *)
(***************************************************************************)

\* Kokkos::Experimental::Impl::DynRankViewFill<DynRankView>(view, value).
DynRankViewFill ==
  [path |-> "fill", nbytes |-> 0, DeepCopy |-> 0, Remap |-> 0]

\* deep_copy(view, value) with value of the Fad type's scalar type.
DeepCopyScalar ==
  /\ op = "init"
  /\ deep_copy_static_assert(traits)
  /\ op' = "deep_copy_scalar"
  /\ out' = DynRankViewFill
  /\ UNCHANGED <<args, rank, layout, l, rule, src, dst, dst0, traits, pe>>

RejectDeepCopyScalar ==
  /\ op = "init"
  /\ ~deep_copy_static_assert(traits)
  /\ op' = "rejected_scalar"
  /\ UNCHANGED <<args, rank, layout, l, rule, src, dst, dst0, traits, out, pe>>

\* deep_copy(view, value) with value of the view's Fad value type.
DeepCopyFad ==
  /\ op = "init"
  /\ deep_copy_static_assert(traits)
  /\ op' = "deep_copy_fad"
  /\ out' = DynRankViewFill
  /\ UNCHANGED <<args, rank, layout, l, rule, src, dst, dst0, traits, pe>>

RejectDeepCopyFad ==
  /\ op = "init"
  /\ ~deep_copy_static_assert(traits)
  /\ op' = "rejected_fad"
  /\ UNCHANGED <<args, rank, layout, l, rule, src, dst, dst0, traits, out, pe>>

NextDeepCopyOverloads ==
  \/ DeepCopyViews \/ RejectDeepCopy
  \/ DeepCopyScalar \/ RejectDeepCopyScalar
  \/ DeepCopyFad \/ RejectDeepCopyFad

SpecDeepCopyOverloads == InitDeepCopy /\ [][NextDeepCopyOverloads]_vars

(***************************************************************************)
(* Claims about deep_copy                                                   *)
(***************************************************************************)

\* C14: when source and destination have the same data pointer, deep_copy
\* makes no byte copy and no remap and throws nothing, whatever the ranks,
\* layouts, shapes and accessibility of the two views.
C14_SelfCopyDoesNothing ==
  (op = "deep_copy" /\ dst.m_handle = src.m_handle) =>
    /\ out.DeepCopy = 0 /\ out.Remap = 0 /\ out.nbytes = 0
    /\ out.path = "none"

C14_Witness ==
  /\ op = "deep_copy"
  /\ dst.m_handle = src.m_handle
  /\ dst.m_rank = 2 /\ src.m_rank = 1
  /\ traits.dst_layout = "LayoutStride" /\ traits.src_layout = "LayoutLeft"
  /\ ~traits.DstExecCanAccessSrc /\ ~traits.SrcExecCanAccessDst
  /\ out.path = "none"

\* The first branch, in the order scalar, bulk, strided, remap in the
\* destination's space, remap in the source's space, throw, whose condition
\* holds.
C15_FirstMatch ==
  IF dst.m_rank = 0 /\ src.m_rank = 0 THEN "scalar"
  ELSE IF BulkCopyable(traits, dst, src) THEN "bulk"
  ELSE IF StridedCopyable(traits, dst, src) THEN "strided"
  ELSE IF traits.DstExecCanAccessSrc THEN "remap_dst"
  ELSE IF traits.SrcExecCanAccessDst THEN "remap_src"
  ELSE "throw"

\* C15: with distinct data pointers the branch taken is the first one, in
\* the order scalar, bulk, strided, remap (destination), remap (source),
\* throw, whose condition holds, and it is the only one executed; when both
\* views have rank 0 exactly one DeepCopy of sizeof(value_type) bytes is made.
C15_DecisionOrder ==
  (op = "deep_copy" /\ dst.m_handle # src.m_handle) =>
    /\ out.path = C15_FirstMatch
    /\ out.DeepCopy + out.Remap = (IF out.path = "throw" THEN 0 ELSE 1)
    /\ out.DeepCopy = 1 <=> out.path \in {"scalar", "bulk", "strided"}
    /\ (dst.m_rank = 0 /\ src.m_rank = 0) =>
         (out.path = "scalar" /\ out.nbytes = sizeof_value_type)

C15_Witness ==
  /\ op = "deep_copy"
  /\ dst.m_handle # src.m_handle
  /\ dst.m_rank = 0 /\ src.m_rank = 0
  /\ BulkCopyable(traits, dst, src)
  /\ traits.DstExecCanAccessSrc
  /\ out = [path |-> "scalar", nbytes |-> sizeof_value_type,
            DeepCopy |-> 1, Remap |-> 0]

\* The views C16 is about: distinct data pointers, not both of rank 0, the
\* same value type, equal spans.
C16_Candidates ==
  /\ op = "deep_copy"
  /\ dst.m_handle # src.m_handle
  /\ ~(dst.m_rank = 0 /\ src.m_rank = 0)
  /\ SameValueType(traits)
  /\ span(traits.dst_layout, dst) = span(traits.src_layout, src)

C16_SameLeftOrRight ==
  /\ traits.dst_layout = traits.src_layout
  /\ traits.dst_layout \in {"LayoutLeft", "LayoutRight"}

C16_OneBulkCopy ==
  /\ out.path = "bulk"
  /\ out.DeepCopy = 1 /\ out.Remap = 0
  /\ out.nbytes = sizeof_scalar * span(traits.dst_layout, dst)

\* C16 (as stated): for such views, if both have the same LayoutLeft or
\* LayoutRight and all 8 dimensions are equal, or if both have rank 1, one
\* bulk copy of sizeof(scalar) * dst.span() bytes is made and no remap.
C16_BulkWhenSameLayoutOrBothRankOne ==
  (/\ C16_Candidates
   /\ \/ (C16_SameLeftOrRight /\ SameDimensions(dst, src))
      \/ (dst.m_rank = 1 /\ src.m_rank = 1)) => C16_OneBulkCopy

\* C16 (amended): for such views, if all 8 dimensions are equal and either
\* both have the same LayoutLeft or LayoutRight or both have rank 1, one bulk
\* copy of sizeof(scalar) * dst.span() bytes is made and no remap; two rank-1
\* views of equal span whose dimensions differ are not bulk copied.
C16_BulkWhenSameDimensions ==
  /\ (/\ C16_Candidates
      /\ SameDimensions(dst, src)
      /\ (C16_SameLeftOrRight \/ (dst.m_rank = 1 /\ src.m_rank = 1)))
       => C16_OneBulkCopy
  /\ (C16_Candidates /\ ~SameDimensions(dst, src)) => out.DeepCopy = 0

C16_Witness ==
  /\ C16_Candidates
  /\ dst.m_rank = 1 /\ src.m_rank = 1
  /\ traits.dst_layout = "LayoutLeft" /\ traits.src_layout = "LayoutRight"
  /\ SameDimensions(dst, src)
  /\ dst.m_dim[0] = 4 /\ dst.m_dim[7] = 3
  /\ out = [path |-> "bulk", nbytes |-> 12 * sizeof_scalar,
            DeepCopy |-> 1, Remap |-> 0]

\* C17: source and destination both LayoutRight, rank 2, dimensions 4 x 4,
\* Fad extent 3, the same value type, distinct data: the bulk branch is taken
\* and nbytes = 16 * (3 * sizeof(scalar)). Whenever a bulk copy is made,
\* nbytes is sizeof(scalar) times the destination's span.
C17_BulkByteCount ==
  op = "deep_copy" =>
    /\ (/\ dst.m_handle # src.m_handle
        /\ traits.dst_layout = "LayoutRight" /\ traits.src_layout = "LayoutRight"
        /\ SameValueType(traits)
        /\ dst.m_rank = 2 /\ src.m_rank = 2
        /\ \A v \in {dst, src} :
             v.m_dim[0] = 4 /\ v.m_dim[1] = 4 /\ v.m_dim[7] = 3)
         => (out.path = "bulk" /\ out.nbytes = 16 * (3 * sizeof_scalar))
    /\ out.path \in {"bulk", "strided"} =>
         out.nbytes = sizeof_scalar * span(traits.dst_layout, dst)

C17_Witness ==
  /\ op = "deep_copy"
  /\ traits.dst_layout = "LayoutRight" /\ traits.src_layout = "LayoutRight"
  /\ dst.m_rank = 2 /\ src.m_rank = 2
  /\ \A v \in {dst, src} : v.m_dim[0] = 4 /\ v.m_dim[1] = 4 /\ v.m_dim[7] = 3
  /\ out.path = "bulk" /\ out.DeepCopy = 1
  /\ out.nbytes = 384

\* C18 (as stated): when both views are LayoutStride, a bulk byte copy is
\* made only if the value types match, the spans are equal, all 8 dimensions
\* are equal and all 8 strides are equal; if any stride differs no bulk byte
\* copy is made.
C18_StridedBulkOnlyWhenStridesEqual ==
  (/\ op = "deep_copy"
   /\ traits.dst_layout = "LayoutStride" /\ traits.src_layout = "LayoutStride"
   /\ out.path \in {"bulk", "strided"}) =>
    /\ SameValueType(traits)
    /\ span(traits.dst_layout, dst) = span(traits.src_layout, src)
    /\ SameDimensions(dst, src)
    /\ SameStrides(dst, src)

\* C19 (as stated): source LayoutRight, destination LayoutStride, equal
\* dimensions and span: the copy is an element-wise remap, in the
\* destination's or the source's execution space, and never a bulk byte
\* copy, for every rank. Taken for distinct data pointers, views that are not
\* both of rank 0, and a pair of spaces where one can access the other.
C19_RightToStrideIsRemapped ==
  (/\ op = "deep_copy"
   /\ dst.m_handle # src.m_handle
   /\ ~(dst.m_rank = 0 /\ src.m_rank = 0)
   /\ traits.DstExecCanAccessSrc \/ traits.SrcExecCanAccessDst
   /\ traits.src_layout = "LayoutRight" /\ traits.dst_layout = "LayoutStride"
   /\ SameDimensions(dst, src)
   /\ span(traits.dst_layout, dst) = span(traits.src_layout, src)) =>
    /\ out.path \in {"remap_dst", "remap_src"}
    /\ out.DeepCopy = 0

\* C20: with distinct data pointers and no scalar or bulk branch applicable,
\* the remap runs in the destination's execution space whenever that space
\* can access the source's memory, also when the source's space can access
\* the destination's; it runs in the source's execution space only when the
\* destination's space cannot access the source and the source's space can
\* access the destination.
C20_RemapContext ==
  (/\ op = "deep_copy"
   /\ dst.m_handle # src.m_handle
   /\ ~(dst.m_rank = 0 /\ src.m_rank = 0)
   /\ ~BulkCopyable(traits, dst, src)
   /\ ~StridedCopyable(traits, dst, src)) =>
    /\ traits.DstExecCanAccessSrc => (out.path = "remap_dst" /\ out.Remap = 1)
    /\ (~traits.DstExecCanAccessSrc /\ traits.SrcExecCanAccessDst)
         => (out.path = "remap_src" /\ out.Remap = 1)
    /\ out.path = "remap_src"
         => (~traits.DstExecCanAccessSrc /\ traits.SrcExecCanAccessDst)

C20_Witness ==
  /\ op = "deep_copy"
  /\ dst.m_handle # src.m_handle
  /\ dst.m_rank = 2 /\ src.m_rank = 2
  /\ ~SameDimensions(dst, src)
  /\ traits.DstExecCanAccessSrc /\ traits.SrcExecCanAccessDst
  /\ out.path = "remap_dst" /\ out.Remap = 1 /\ out.DeepCopy = 0


\* C21 (as stated): when neither execution space can access the other's
\* memory and the dimensions of the two views differ, deep_copy throws and
\* makes no byte copy and no remap. Taken for distinct data pointers.
C21_ThrowWhenInaccessible ==
  (/\ op = "deep_copy"
   /\ dst.m_handle # src.m_handle
   /\ ~traits.DstExecCanAccessSrc /\ ~traits.SrcExecCanAccessDst
   /\ ~SameDimensions(dst, src)) =>
    (out.path = "throw" /\ out.DeepCopy = 0 /\ out.Remap = 0)

\* C21 (amended): with distinct data pointers, neither execution space able
\* to access the other's memory and differing dimensions, deep_copy throws
\* and makes no byte copy and no remap unless both views have rank 0; two
\* rank-0 views, whose Fad extents differ, get the scalar copy of
\* sizeof(value_type) bytes and nothing is thrown.
C21_ThrowUnlessBothRankZero ==
  (/\ op = "deep_copy"
   /\ dst.m_handle # src.m_handle
   /\ ~traits.DstExecCanAccessSrc /\ ~traits.SrcExecCanAccessDst
   /\ ~SameDimensions(dst, src)) =>
    IF dst.m_rank = 0 /\ src.m_rank = 0
    THEN out = DeepCopy("scalar", sizeof_value_type)
    ELSE out.path = "throw" /\ out.DeepCopy = 0 /\ out.Remap = 0

C21_Witness ==
  /\ op = "deep_copy"
  /\ dst.m_handle # src.m_handle
  /\ ~traits.DstExecCanAccessSrc /\ ~traits.SrcExecCanAccessDst
  /\ SameValueType(traits)
  /\ dst.m_rank = 1 /\ src.m_rank = 2
  /\ out.path = "throw" /\ out.DeepCopy = 0 /\ out.Remap = 0

\* C22: a deep_copy whose destination value type is const is rejected by the
\* static_assert of each of the three overloads: nothing is dispatched, no
\* DeepCopy, remap or fill is made; a non-const destination is not rejected.
C22_ConstDestinationRejected ==
  op # "init" =>
    /\ traits.dst_value_type = "const_value_type" =>
         /\ op \in {"rejected", "rejected_scalar", "rejected_fad"}
         /\ out = NoOut
    /\ traits.dst_value_type # "const_value_type" =>
         op \in {"deep_copy", "deep_copy_scalar", "deep_copy_fad"}

C22_Witness ==
  /\ op = "rejected_scalar"
  /\ traits.dst_value_type = "const_value_type"
  /\ dst.m_handle # src.m_handle
  /\ dst.m_rank = 2
  /\ out = NoOut

\* C27: with distinct data pointers, when the scalar condition or a bulk
\* condition holds a DeepCopy is made and nothing is thrown, whatever the
\* two accessibility flags are.
C27_AccessibilityConsultedLast ==
  (/\ op = "deep_copy"
   /\ dst.m_handle # src.m_handle
   /\ \/ (dst.m_rank = 0 /\ src.m_rank = 0)
      \/ BulkCopyable(traits, dst, src)
      \/ StridedCopyable(traits, dst, src)) =>
    /\ out.DeepCopy = 1 /\ out.Remap = 0
    /\ out.path \in {"scalar", "bulk", "strided"}

C27_Witness ==
  /\ op = "deep_copy"
  /\ dst.m_handle # src.m_handle
  /\ ~traits.DstExecCanAccessSrc /\ ~traits.SrcExecCanAccessDst
  /\ dst.m_rank = 2 /\ src.m_rank = 2
  /\ traits.dst_layout = "LayoutStride"
  /\ out.path = "strided" /\ out.DeepCopy = 1

\* C28: the strided branch is taken only when both views are LayoutStride;
\* whenever both views have rank 1 and the strided branch's type, span and
\* dimension conditions hold, the contiguous branch has matched before it.
C28_StridedBranchNeedsLayoutStride ==
  op = "deep_copy" =>
    /\ out.path = "strided" =>
         /\ traits.dst_layout = "LayoutStride"
         /\ traits.src_layout = "LayoutStride"
         /\ ~(dst.m_rank = 1 /\ src.m_rank = 1)
    /\ (/\ dst.m_handle # src.m_handle
        /\ dst.m_rank = 1 /\ src.m_rank = 1
        /\ SameValueType(traits)
        /\ span(traits.dst_layout, dst) = span(traits.src_layout, src)
        /\ SameDimensions(dst, src)) => out.path = "bulk"

C28_Witness ==
  /\ op = "deep_copy"
  /\ dst.m_rank = 1 /\ src.m_rank = 1
  /\ traits.dst_layout = "LayoutStride" /\ traits.src_layout = "LayoutRight"
  /\ StridedCopyable(traits, dst, src)
  /\ out.path = "bulk"

(***************************************************************************)
(* Further claims about computeRank and createLayout                        *)
(***************************************************************************)

\* C25: for every pattern of specified and unspecified arguments, contiguous
\* or not, computeRank returns the index of the highest specified slot, and
\* 0 when no slot is specified.
C25_RankIsHighestSpecified ==
  op = "computeRank" =>
    LET specified == {i \in Slots : args[i] # unspecified}
    IN  /\ specified = {} => rank = 0
        /\ specified # {} =>
             (rank \in specified /\ \A i \in specified : i <= rank)

C25_Witness ==
  /\ op = "computeRank"
  /\ args[0] = unspecified /\ args[1] = unspecified
  /\ args[3] # unspecified
  /\ \A i \in 4..7 : args[i] = unspecified
  /\ rank = 3

\* C26: for a request with at least one specified slot the layout createLayout
\* returns has all 8 slots specified, and createLayout applied to that layout
\* (Fad slot 7) returns the same 8 extents and, for LayoutStride, the same 8
\* strides.
C26_CreateLayoutIdempotent ==
  (op \in {"createLayoutAgain", "createLayoutStrideAgain"} /\ Leading(args) >= 1) =>
    /\ \A i \in Slots : layout.dimension[i] # unspecified
    /\ computeRankLayout(layout) = 7
    /\ l.dimension = layout.dimension
    /\ l.stride = layout.stride
    /\ l.kind = layout.kind

C26_Witness ==
  /\ op = "createLayoutStrideAgain"
  /\ Leading(args) = 3
  /\ args[2] = 2
  /\ layout.dimension[2] = 1 /\ layout.dimension[7] = 2
  /\ l.dimension[2] = 1 /\ l.dimension[7] = 2
  /\ l.stride[7] = 8

(***************************************************************************)
(* subview of a dynamic-rank view of Fad                                    *)
(***************************************************************************)

\* A view together with its allocation tracker.
Tracked(v, t) ==
  [m_dim |-> v.m_dim, m_stride |-> v.m_stride, m_handle |-> v.m_handle,
   m_rank |-> v.m_rank, m_fad_size |-> v.m_fad_size,
   m_fad_stride |-> v.m_fad_stride, specialize |-> v.specialize,
   m_track |-> t]

\* ret_type dst: a default-constructed view, no tracker.
NoSubview == Tracked(NoView, 0)

\* A slice argument: a single index, or a range that begins at an index and
\* has a length; a position past the argument list is an int() index.
NoArg == [kind |-> "none", begin |-> 0, length |-> 1]

\* The arguments offered for a dimension of extent n: the first or last
\* index, ALL, or the pair (1, n).
SliceArg(n, c) ==
  IF c = 0 THEN [kind |-> "index", begin |-> 0, length |-> 1]
  ELSE IF c = 1 THEN [kind |-> "range", begin |-> 0, length |-> n]
  ELSE IF c = 2 THEN [kind |-> "index", begin |-> n - 1, length |-> 1]
  ELSE [kind |-> "range", begin |-> 1, length |-> n - 1]

\* is_integral_extent<k, Args...>::value: argument k is a range.
is_integral_extent(a, k) == a[k].kind = "range"

\* enum { rank = unsigned(R0) + ... + unsigned(R6) }.
SubviewRank(a) == Cardinality({k \in 0..6 : is_integral_extent(a, k)})

\* Plausible slip: the static rank is stored.
SubviewDynRank_static(src_rank, a) == SubviewRank(a)

\* dst.m_rank = (src_rank > 0 ? unsigned(R0) : 0) + ... +
\* (src_rank > 6 ? unsigned(R6) : 0).
SubviewDynRank(src_rank, a) ==
  Cardinality({k \in 0..6 : src_rank > k /\ is_integral_extent(a, k)})

\* SubviewExtents<8, rank+1>(dim, arg0, ..., arg6, ALL): domain_offset(k) is
\* where argument k begins.
domain_offset(a, k) == IF k = 7 THEN 0 ELSE a[k].begin

\* The source dimensions sliced by a range, slot 7 (ALL) included.
RangeDomain(a) == {k \in 0..6 : is_integral_extent(a, k)} \cup {7}

\* range_index(j): the source dimension of the j-th range.
range_index(a, j) ==
  CHOOSE p \in RangeDomain(a) :
    Cardinality({q \in RangeDomain(a) : q < p}) = j

\* range_extent(j): the length of the j-th range.
range_extent(a, s, j) ==
  IF range_index(a, j) = 7 THEN s.m_dim[7] ELSE a[range_index(a, j)].length

\* dst_offset_type tempdst(src.m_map.m_offset, extents): a LayoutStride
\* offset of rank+1 dimensions, the ranges in order.
SubviewOffset(s, a) ==
  [m_dim |-> [j \in Slots |->
                IF j <= SubviewRank(a) THEN range_extent(a, s, j) ELSE 1],
   m_stride |-> [j \in Slots |->
                   IF j <= SubviewRank(a) THEN s.m_stride[range_index(a, j)]
                   ELSE 0]]

\* i[0] * S0 + ... + i[n] * Sn.
RECURSIVE OffsetSum(_, _, _)
OffsetSum(a, st, n) ==
  IF n < 0 THEN 0
  ELSE domain_offset(a, n) * st[n] + OffsetSum(a, st, n - 1)

\* src.m_map.m_offset(domain_offset(0), ..., domain_offset(7)).
m_offset(s, a) == OffsetSum(a, s.m_stride, 7)

\* Plausible slip: the handle is the source's, not advanced to the slice.
SubviewHandle_base(s, a) == s.m_handle

\* dst_handle_type(src.m_map.m_handle + src.m_map.m_offset(...)).
SubviewHandle(s, a) == s.m_handle + m_offset(s, a)

\* ViewMapping<DynRankSubviewTag, SrcTraits, Args...>::subview.
subview(src_rank, s, a, FadStaticDim) ==
  LET tempdst == SubviewOffset(s, a)
      d1 == AssignFadDimStride(SubviewRank(a), FadStaticDim, NoSubview, tempdst)
      d2 == [d1 EXCEPT !.m_track = s.m_track]
      d3 == [d2 EXCEPT !.m_handle = SubviewHandle(s, a)]
      d4 == [d3 EXCEPT !.m_fad_size = s.m_fad_size,
                       !.m_fad_stride = s.m_fad_stride]
  IN  [d4 EXCEPT !.m_rank = SubviewDynRank(src_rank, a)]

\* The argument lists: n arguments, one of the offered kinds each; on a
\* dimension of extent 1 an index or ALL.
SubviewArgs(s, n, c, w) ==
  [k \in 0..6 |->
     IF k >= n THEN NoArg
     ELSE IF s.m_dim[k] = 1 THEN SliceArg(1, c[k])
     ELSE SliceArg(s.m_dim[k], c[k] + 2 * w[k])]

InitSubview ==
  /\ op = "init"
  /\ \E lay \in FadLayouts, R \in 0..MaxRank :
       \E f \in [0..R -> DeepCopyExtents], sd \in {0, 1} :
         \E st \in StridesFor(lay, R, f) :
           /\ traits = [FadTraits EXCEPT !.src_layout = lay,
                                         !.dst_layout = "LayoutStride"]
           /\ src = Tracked(DynRankView(R, f, st, 2), 7)
           /\ \E n \in 0..7 :
                \E c \in [0..(n - 1) -> 0..1],
                   w \in [0..((IF n < R THEN n ELSE R) - 1) -> 0..1] :
                  args = SubviewArgs(src, n, c, w)
           /\ rule = [R |-> SubviewRank(args), StaticDim |-> sd * f[R]]
  /\ dst = NoSubview /\ dst0 = NoSubview
  /\ rank = 0 /\ layout = NoLayout /\ l = NoLayout
  /\ out = NoOut
  /\ pe = NoCommandFile

Subview ==
  /\ op = "init"
  /\ op' = "subview"
  /\ dst0' = dst
  /\ dst' = subview(src.m_rank, src, args, rule.StaticDim)
  /\ UNCHANGED <<args, rank, layout, l, rule, src, traits, out, pe>>

NextSubview == Subview

SpecSubview == InitSubview /\ [][NextSubview]_vars

\* C23: subview leaves the source as it was, and the view returned has the
\* source's tracker, m_fad_size and m_fad_stride and a handle that is the
\* source's handle advanced by the source's offset of the indices at which
\* the slice begins.
C23_SubviewSharesStorage ==
  [][op' = "subview" =>
       /\ src' = src
       /\ dst'.m_track = src.m_track
       /\ dst'.m_fad_size = src.m_fad_size
       /\ dst'.m_fad_stride = src.m_fad_stride
       /\ dst'.m_handle = src.m_handle + m_offset(src, args)
       /\ dst'.m_handle >= src.m_handle
       /\ dst'.m_handle < src.m_handle + Product(src.m_dim, 7)]_vars

C23_Witness ==
  /\ op = "subview"
  /\ src.m_rank = 2
  /\ args[0].begin = 1 /\ args[1].begin = 2
  /\ src.m_stride[0] = 1
  /\ dst.m_track = 7 /\ src.m_track = 7
  /\ dst.m_handle = src.m_handle + 1 + 2 * src.m_stride[1]
  /\ dst.m_fad_size = src.m_fad_size

\* C24: the rank stored in a subview is the number of range arguments among
\* the positions below the source's rank; it exceeds neither the source's
\* rank nor the number of range arguments over all seven positions, which
\* selects the transfer rule.
C24_SubviewRank ==
  op = "subview" =>
    /\ dst.m_rank =
         Cardinality({k \in 0..6 : k < src.m_rank /\ args[k].kind = "range"})
    /\ dst.m_rank <= src.m_rank
    /\ dst.m_rank <= rule.R
    /\ rule.R = Cardinality({k \in 0..6 : args[k].kind = "range"})

C24_Witness ==
  /\ op = "subview"
  /\ src.m_rank = 1
  /\ args[0].kind = "range" /\ args[1].kind = "range" /\ args[2].kind = "index"
  /\ rule.R = 2
  /\ dst.m_rank = 1

(***************************************************************************)
(* read_pexoII_info: the command file, line by line                         *)
(***************************************************************************)

TLIST_CNT == 5

MaxLines == 3

MaxTimes == 11

\* File names as character sequences, shorter than MAX_FNL - 1 so that
\* strncpy copies them whole.
FileNames == {<<"a", ".", "g">>, <<"b">>}

\* sscanf(cptr, "%d", &x): the number of conversions, EOF (-1) on an empty
\* string, and the value stored.
sscanf_d(tok) ==
  IF tok = "" THEN [icnt |-> -1, value |-> 0]
  ELSE IF tok = "0" THEN [icnt |-> 1, value |-> 0]
  ELSE IF tok = "3" THEN [icnt |-> 1, value |-> 3]
  ELSE IF tok = "4" THEN [icnt |-> 1, value |-> 4]
  ELSE IF tok = "-2" THEN [icnt |-> 1, value |-> -2]
  ELSE [icnt |-> 0, value |-> 0]

\* Plausible slip: the name is overwritten by every line that carries it.
SetName_always(old, tok) == tok

\* if (strlen(Name) == 0) { ...; strncpy(Name, cptr, MAX_FNL); }
SetName(old, tok) == IF Len(old) = 0 THEN tok ELSE old

\* std::vector::resize(n): the first n elements kept, zeros appended.
resize(v, n) == [i \in 1..n |-> IF i <= Len(v) THEN v[i] ELSE 0]

\* Plausible slip: the list grows only after Num_Times has passed its length.
TimeListGrow_late(n, alloc) == IF n > alloc THEN alloc + TLIST_CNT ELSE alloc

\* if (Num_Times >= tlist_alloc) tlist_alloc += TLIST_CNT.
TimeListGrow(n, alloc) == IF n >= alloc THEN alloc + TLIST_CNT ELSE alloc

\* Allocate the time list: resize(TLIST_CNT), tlist_alloc, Num_Times = 0.
TimeListBegin(g) ==
  [g EXCEPT !.Time_Idx = resize(g.Time_Idx, TLIST_CNT),
            !.tlist_alloc = TLIST_CNT,
            !.Num_Times = 0]

\* One pass of the while (cptr2) loop over the token at cptr2.
TimeListStep(g, tok) ==
  LET last == tok = "last"
      sc   == sscanf_d(tok)
      icnt == IF last THEN 0 ELSE sc.icnt
      idx  == IF last THEN [g.Time_Idx EXCEPT ![g.Num_Times + 1] = 0]
              ELSE IF sc.icnt = 1
              THEN [g.Time_Idx EXCEPT ![g.Num_Times + 1] = sc.value]
              ELSE g.Time_Idx
      n1   == IF icnt >= 0 THEN g.Num_Times + 1 ELSE g.Num_Times
      a1   == TimeListGrow(n1, g.tlist_alloc)
  IN  [g EXCEPT !.Time_Idx = resize(idx, a1),
                !.Num_Times = n1,
                !.tlist_alloc = a1]

\* The whole while (cptr2) loop over the tokens between the braces.
RECURSIVE TimeListLoop(_, _)
TimeListLoop(g, toks) ==
  IF toks = <<>> THEN g
  ELSE TimeListLoop(TimeListStep(g, Head(toks)), Tail(toks))

\* One suboption of a "restart info" line.
RestartSuboption(g, sub) ==
  IF sub.opt = "off"
  THEN IF g.Restart_Flag < 0
       THEN [g EXCEPT !.Restart_Flag = 0, !.Num_Times = 0] ELSE g
  ELSE IF sub.opt = "all"
  THEN IF g.Restart_Flag < 0
       THEN [g EXCEPT !.Restart_Flag = 1, !.Num_Times = -1] ELSE g
  ELSE IF sub.opt = "block"
  THEN IF sub.has_value THEN g ELSE [g EXCEPT !.pc = "exit"]
  ELSE IF sub.opt = "list"
  THEN TimeListLoop(TimeListBegin(g), sub.list)
  ELSE [g EXCEPT !.pc = "exit"]

\* The while (cptr != nullptr) loop over the suboptions of the line.
RECURSIVE RestartInfo(_, _)
RestartInfo(g, subs) ==
  IF subs = <<>> \/ g.pc = "exit" THEN g
  ELSE RestartInfo(RestartSuboption(g, Head(subs)), Tail(subs))

\* The keywords after "restart info": their settings are not followed; a
\* line that cannot be interpreted makes the function return.
OtherKeywords ==
  {"reserve space", "parallel disk info", "parallel file location"}

\* The body of the while (fgets(...)) loop for one line.
read_line(g, line) ==
  IF line.keyword = "#" THEN g
  ELSE IF line.keyword = "input fem file"
  THEN [g EXCEPT !.ExoFile = SetName(g.ExoFile, line.value)]
  ELSE IF line.keyword = "lb file"
  THEN [g EXCEPT !.Exo_LB_File = SetName(g.Exo_LB_File, line.value)]
  ELSE IF line.keyword = "scalar results fem file"
  THEN [g EXCEPT !.Exo_Res_File = SetName(g.Exo_Res_File, line.value)]
  ELSE IF line.keyword = "parallel results file base name"
  THEN [g EXCEPT !.Output_File_Base_Name =
                    SetName(g.Output_File_Base_Name, line.value)]
  ELSE IF line.keyword = "number of processors"
  THEN IF g.Proc_Info0 < 0
       THEN IF sscanf_d(line.value).icnt # 1 THEN [g EXCEPT !.pc = "exit"]
            ELSE [g EXCEPT !.Proc_Info0 = sscanf_d(line.value).value]
       ELSE g
  ELSE IF line.keyword = "file extension for spread files"
  THEN [g EXCEPT !.Exo_Extension = line.value]
  ELSE IF line.keyword = "use scalar mesh file"
  THEN IF g.Gen_Flag < 0
       THEN [g EXCEPT !.Gen_Flag = IF line.value = "yes" THEN 1 ELSE 0]
       ELSE g
  ELSE IF line.keyword = "debug"
  THEN IF g.Debug_Flag < 0
       THEN IF sscanf_d(line.value).icnt # 1 THEN [g EXCEPT !.pc = "exit"]
            ELSE [g EXCEPT !.Debug_Flag = sscanf_d(line.value).value]
       ELSE g
  ELSE IF line.keyword = "restart info"
  THEN RestartInfo(g, line.value)
  ELSE IF line.keyword \in OtherKeywords
  THEN IF line.value = "ok" THEN g ELSE [g EXCEPT !.pc = "return"]
  ELSE g

\* strrchr(name, '.') and *cPtr = '\0': the name up to its last '.'.
StripExtension(name) ==
  LET dots == {i \in 1..Len(name) : name[i] = "."}
  IN  IF dots = {} THEN name
      ELSE SubSeq(name, 1, (CHOOSE i \in dots : \A j \in dots : j <= i) - 1)

\* After the loop: the base name defaults to the load-balance file's name.
end_of_file(g) ==
  IF Len(g.Output_File_Base_Name) = 0 /\ Len(g.Exo_LB_File) # 0
  THEN [g EXCEPT !.Output_File_Base_Name = StripExtension(g.Exo_LB_File),
                 !.pc = "return"]
  ELSE [g EXCEPT !.pc = "return"]

\* The globals before the call, nothing set; the input with file name, the
\* processor count and the debug level set on the command line.
Globals(preset) ==
  [pc |-> "start", nread |-> 0, ntok |-> 0, assigned |-> {},
   inp_line |-> [keyword |-> "", value |-> ""],
   ExoFile |-> IF preset THEN <<"b">> ELSE <<>>,
   Exo_LB_File |-> <<>>, Exo_Res_File |-> <<>>,
   Output_File_Base_Name |-> <<>>,
   Proc_Info0 |-> IF preset THEN 4 ELSE -1,
   Exo_Extension |-> <<>>,
   Gen_Flag |-> -1,
   Debug_Flag |-> IF preset THEN 3 ELSE -1,
   Restart_Flag |-> -1, Num_Times |-> -1, Time_Idx |-> <<>>,
   tlist_alloc |-> 0]

\* The suboption lists of the "restart info" lines read.
RestartLines ==
  LET off   == [opt |-> "off", has_value |-> FALSE, list |-> <<>>]
      all   == [opt |-> "all", has_value |-> FALSE, list |-> <<>>]
      block(b) == [opt |-> "block", has_value |-> b, list |-> <<>>]
      list(t)  == [opt |-> "list", has_value |-> FALSE, list |-> t]
      bogus == [opt |-> "bogus", has_value |-> FALSE, list |-> <<>>]
  IN  {<<off>>, <<all>>, <<all, off>>, <<block(TRUE), list(<<"3", "last">>)>>,
       <<list(<<"4", "x", "3", "last", "0", "3", "">>)>>,
       <<block(FALSE)>>, <<bogus>>}

InitCommandFile ==
  /\ op = "init"
  /\ pe \in {Globals(FALSE), Globals(TRUE)}
  /\ args = ZeroArray /\ rank = 0 /\ layout = NoLayout /\ l = NoLayout
  /\ rule = NoRule /\ src = NoView /\ dst = NoView /\ dst0 = NoView
  /\ traits = FadTraits /\ out = NoOut

\* read_mesh_file_name over the lines of a command file: the first
\* "input fem file" line read while ExoFile is empty sets it and ends the
\* loop; every other line is passed over.
RECURSIVE read_mesh_file_name(_, _)
read_mesh_file_name(g, file) ==
  IF file = <<>> THEN g
  ELSE IF Head(file).keyword = "input fem file" /\ Len(g.ExoFile) = 0
  THEN [g EXCEPT !.ExoFile = Head(file).value]
  ELSE read_mesh_file_name(g, Tail(file))

\* The keywords of the lines given to read_mesh_file_name.
MeshFileKeywords == {"input fem file", "lb file", "debug", "#"}

\* The whole of read_mesh_file_name on a command file of up to two lines;
\* only the value of an "input fem file" line is looked at.
ReadMeshFileName ==
  /\ pe.pc = "start"
  /\ op' = "read_mesh_file_name"
  /\ \E n \in 0..2, k1, k2 \in MeshFileKeywords, v1, v2 \in FileNames :
       pe' = read_mesh_file_name(pe,
               SubSeq(<<[keyword |-> k1, value |-> v1],
                        [keyword |-> k2, value |-> v2]>>, 1, n))
  /\ UNCHANGED <<args, rank, layout, l, rule, src, dst, dst0, traits, out>>

\* read_pexoII_info is called and opens the command file.
OpenCommandFile ==
  /\ pe.pc = "start"
  /\ op' = "read_pexoII_info"
  /\ pe' = [pe EXCEPT !.pc = "reading"]
  /\ UNCHANGED <<args, rank, layout, l, rule, src, dst, dst0, traits, out>>

\* The names that a line sets only while they are empty.
GuardedNames ==
  {"ExoFile", "Exo_LB_File", "Exo_Res_File", "Output_File_Base_Name"}

\* The integers that a line sets only while they are negative.
GuardedIntegers == {"Proc_Info0", "Gen_Flag", "Debug_Flag"}

\* fgets returns a line and the loop body runs on it; pe.assigned records
\* the settings whose value came from a line read so far.
Read(line) ==
  /\ pe.pc = "reading"
  /\ pe.nread < MaxLines
  /\ op' = "read_pexoII_info"
  /\ pe' = [read_line(pe, line) EXCEPT
                !.nread = pe.nread + 1,
                !.inp_line = line,
                !.assigned = pe.assigned \cup
                  {f \in GuardedNames \cup GuardedIntegers :
                     read_line(pe, line)[f] # pe[f]}]
  /\ UNCHANGED <<args, rank, layout, l, rule, src, dst, dst0, traits, out>>

ReadLine ==
  \/ \E k \in {"input fem file", "lb file", "scalar results fem file",
               "parallel results file base name",
               "file extension for spread files"}, v \in FileNames :
       Read([keyword |-> k, value |-> v])
  \/ \E k \in {"number of processors", "debug"}, v \in {"4", "-2", "x"} :
       Read([keyword |-> k, value |-> v])
  \/ \E v \in {"yes", "no"} :
       Read([keyword |-> "use scalar mesh file", value |-> v])
  \/ \E v \in RestartLines : Read([keyword |-> "restart info", value |-> v])
  \/ \E k \in OtherKeywords, v \in {"ok", "bad"} :
       Read([keyword |-> k, value |-> v])
  \/ \E k \in {"#", "unknown"} : Read([keyword |-> k, value |-> ""])

\* fgets returns nullptr.
EndOfFile ==
  /\ pe.pc = "reading"
  /\ op' = "read_pexoII_info"
  /\ pe' = end_of_file(pe)
  /\ UNCHANGED <<args, rank, layout, l, rule, src, dst, dst0, traits, out>>

NextCommandFile ==
  ReadMeshFileName \/ OpenCommandFile \/ ReadLine \/ EndOfFile

SpecCommandFile == InitCommandFile /\ [][NextCommandFile]_vars

(***************************************************************************)
(* read_pexoII_info: the list of a "restart info" line, token by token      *)
(***************************************************************************)

\* The time list has been allocated and the loop is about to start.
InitTimeList ==
  /\ op = "init"
  /\ \E preset \in BOOLEAN :
       pe = [TimeListBegin(Globals(preset)) EXCEPT !.pc = "list"]
  /\ args = ZeroArray /\ rank = 0 /\ layout = NoLayout /\ l = NoLayout
  /\ rule = NoRule /\ src = NoView /\ dst = NoView /\ dst0 = NoView
  /\ traits = FadTraits /\ out = NoOut

\* One pass of the loop; a following blank leads to the next token.
ParseTimeToken ==
  /\ pe.pc = "list"
  /\ pe.ntok < MaxTimes
  /\ op' = "time_list"
  /\ \E tok \in {"last", "3", "x", ""} :
       pe' = [TimeListStep(pe, tok) EXCEPT
                !.ntok = pe.ntok + 1,
                !.pc = IF tok = "" THEN "reading" ELSE "list"]
  /\ UNCHANGED <<args, rank, layout, l, rule, src, dst, dst0, traits, out>>

\* No blank follows the token: cptr2 becomes nullptr.
EndTimeList ==
  /\ pe.pc = "list"
  /\ pe.ntok > 0
  /\ op' = "time_list"
  /\ pe' = [pe EXCEPT !.pc = "reading"]
  /\ UNCHANGED <<args, rank, layout, l, rule, src, dst, dst0, traits, out>>

NextTimeList == ParseTimeToken \/ EndTimeList

SpecTimeList == InitTimeList /\ [][NextTimeList]_vars

\* C29 as stated: a setting whose value came from an earlier line is the
\* same after every later line.
C29_FirstSettingWins ==
  [][pe.pc = "reading" =>
       \A f \in pe.assigned : pe'[f] = pe[f]]_vars

\* C29: over any sequence of lines, a line changes a file name only while
\* the name is empty and the processor count, scalar-mesh flag and debug
\* level only while negative: a name that is not empty and an integer that
\* is not negative, set by an earlier line or before the call, is the same
\* after every later line.
C29_SetOnlyWhileUnset ==
  [][pe.pc = "reading" =>
       /\ \A f \in GuardedNames :
            /\ pe'[f] # pe[f] => Len(pe[f]) = 0
            /\ Len(pe[f]) # 0 => pe'[f] = pe[f]
       /\ \A f \in GuardedIntegers :
            /\ pe'[f] # pe[f] => pe[f] < 0
            /\ pe[f] >= 0 => pe'[f] = pe[f]]_vars

C29_Witness ==
  /\ pe.pc = "reading"
  /\ pe.nread = 3
  /\ pe.inp_line.keyword = "lb file"
  /\ pe.inp_line.value = <<"b">>
  /\ pe.Exo_LB_File = <<"a", ".", "g">>
  /\ pe.Proc_Info0 = -1
  /\ pe.ExoFile = <<"a", ".", "g">>
  /\ "ExoFile" \notin pe.assigned

\* C30: while the list is parsed, at the start of each pass Num_Times is below
\* the length of Time_Idx, so the write to Time_Idx[Num_Times] is inside the
\* vector; tlist_alloc is that length, and the length is TLIST_CNT more each
\* time Num_Times has reached it.
C30_TimeListInBounds ==
  pe.pc \in {"list", "reading"} /\ op \in {"init", "time_list"} =>
    /\ 0 <= pe.Num_Times
    /\ pe.Num_Times < Len(pe.Time_Idx)
    /\ pe.tlist_alloc = Len(pe.Time_Idx)
    /\ Len(pe.Time_Idx) = TLIST_CNT * ((pe.Num_Times \div TLIST_CNT) + 1)

C30_Witness ==
  /\ pe.pc = "list"
  /\ pe.Num_Times = 10
  /\ Len(pe.Time_Idx) = 15
  /\ pe.Time_Idx[10] = 3
  /\ pe.ntok = 10

====
